---- MODULE Spec2Model ----
(***************************************************************************)
(* Model of experiments/structured_procedure_follower.py: the Reasoner     *)
(* (transcript + internal/external mode flag) and the StructuredReasoner   *)
(* (extract_info: one-field forced function call).                         *)
(*                                                                         *)
(* Text is a sequence of tokens (strings); the token TAG stands for the    *)
(* literal '[Internal Monologue]: '.  String concatenation is \o.          *)
(***************************************************************************)
EXTENDS Integers, Sequences, FiniteSets, TLC

VARIABLES messages,        \* Reasoner.messages: the transcript
          is_internal,     \* Reasoner._is_internal
          call,            \* record of the most recent call on the reasoner
          caller_markers,  \* TRUE once add_message appended a mode marker itself
          calls,           \* number of calls made so far (capped by the bounds)
          pc,              \* __main__: where the driver loop stands
          step,            \* __main__: step
          steps,           \* __main__: steps
          questioned       \* the steps whose completion was put to extract_info

driver == <<pc, step, steps, questioned>>

vars == <<messages, is_internal, call, caller_markers, calls, pc, step, steps, questioned>>

(* ---------------------------- bounds ---------------------------------- *)

\* calls per behaviour of Spec (dialogue operations, small extract inputs)
MaxCalls == 4
\* calls per behaviour of SpecExtract (all extract inputs)
MaxExtractCalls == 2
\* calls after which the driver loop of SpecDriver starts no further turn
\* (a turn makes 4 calls; 10 turns take the driver through its step list)
MaxDriverCalls == 40

(* ---------------------------- messages -------------------------------- *)

TAG == "[Internal Monologue]: "

\* `if name:` - a falsy name leaves the message without a 'name' key
NoName == ""

Msg(role, content, name) == [role |-> role, content |-> content, name |-> name]

EnterMarker == Msg("function", <<"[Entered Internal Monologue]">>, "enter_monologue")

EnterAnnouncement ==
    Msg("assistant",
        <<TAG, "I am now in the internal monologue state. I won't be able to respond here, so I'll use this space to think, reflect, and plan.">>,
        NoName)

ExitAnnouncement ==
    Msg("assistant",
        <<TAG, "I am now entering the external dialogue state. Everything I say there will be seen.">>,
        NoName)

ExitMarker == Msg("function", <<"[Exited Internal Monologue]">>, "exit_monologue")

IsMarker(m) == m.role = "function" /\ m.name \in {"enter_monologue", "exit_monologue"}

(* ---------------------------- provider -------------------------------- *)

\* chatgpt.complete raised: nothing is returned
ProviderFailure == [role |-> "error", content |-> <<>>, name |-> NoName, args |-> <<>>]

\* a plain text reply of chatgpt.complete
TextReply(text) == [role |-> "assistant", content |-> text, name |-> NoName, args |-> <<>>]

\* a function-style reply: the called function's name and its decoded arguments,
\* an ordered mapping given as a sequence of <<key, value>> pairs
FunctionReply(name, args) == [role |-> "function", content |-> <<>>, name |-> name, args |-> args]

Completions ==
    { TextReply(<<"Sure.">>),
      TextReply(<<TAG, "I should check the gel.">>),
      TextReply(<<"First, ", TAG, "then.">>) }

\* the request handed to chatgpt.complete
Request(msgs, functions, function_call, use_cache) ==
    [messages |-> msgs, functions |-> functions,
     function_call |-> function_call, use_cache |-> use_cache]

(* ---------------------------- call record ----------------------------- *)

NoValue == [kind |-> "none", val |-> 0]
NoType == [kind |-> "none", name |-> "", fields |-> <<>>]

NoCall ==
    [op |-> "none", system_prompt |-> <<>>, thought |-> <<>>,
     was_internal |-> FALSE, len_before |-> 0,
     requests |-> <<>>,
     outcome |-> "none", error |-> "", error_content |-> <<>>, text |-> <<>>,
     value |-> NoValue, info_format |-> <<>>, output_type |-> NoType,
     reply |-> ProviderFailure]

(* ---------------------------- Reasoner -------------------------------- *)

\* __main__, lines 155-167.  No comma separates the last two literals, so Python
\* joins them: the list has 11 entries and none of them is 'exit'
StepList ==
    << "(1) Add 100 mL of 1XTBE buffer.",
       "(2) Weigh x g of agarose and mix.",
       "(3) Microwave for about 2 min.",
       "(4) Set the flask and let it cool.",
       "(5) Get the gel mold and set it on the tray.",
       "(6) Get the 20-lane comb.",
       "(7) Put in 10 uL of ethidium bromide.",
       "(8) Pour the solution into the mold.",
       "(9) Cover with the foil.",
       "(10) Add 6XLoading dye to the sample.",
       "(11) Load the mixed sample to the lane." \o "exit" >>

\* the system prompts a reasoner is built with; <<>> is a falsy one (None or '')
SystemPrompts == { <<>>, <<"You are an expert experimental synthetic biologist.">> }

\* fault variant: the system message is appended whatever the prompt is
Reasoner_AlwaysSeeds(system_prompt) ==
    [messages |-> <<Msg("system", system_prompt, NoName)>>, is_internal |-> FALSE]

\* Reasoner.__init__: the fields of a new reasoner
Reasoner(system_prompt) ==
    [messages |-> IF system_prompt # <<>>
                  THEN <<Msg("system", system_prompt, NoName)>>
                  ELSE <<>>,
     is_internal |-> FALSE]

\* a reasoner as Reasoner.__init__ leaves it, and the driver before its loop
Init ==
    /\ \E system_prompt \in SystemPrompts :
          /\ messages = Reasoner(system_prompt).messages
          /\ is_internal = Reasoner(system_prompt).is_internal
          /\ call = [NoCall EXCEPT !.op = "__init__", !.system_prompt = system_prompt]
    /\ caller_markers = FALSE
    /\ calls = 0
    /\ pc = "top"
    /\ step = ""
    /\ steps = StepList
    /\ questioned = <<>>

\* Reasoner.add_message
add_message(role, message, name) ==
    /\ messages' = Append(messages, Msg(role, message, name))
    /\ caller_markers' = (caller_markers \/ IsMarker(Msg(role, message, name)))
    /\ call' = [NoCall EXCEPT !.op = "add_message", !.was_internal = is_internal,
                              !.len_before = Len(messages), !.outcome = "returned"]
    /\ calls' = calls + 1
    /\ UNCHANGED is_internal

\* fault variant: the exit messages are appended but the flag is left as it was
ExitMonologue_KeepsFlag(msgs, internal) ==
    IF internal
    THEN [messages |-> msgs \o <<ExitAnnouncement, ExitMarker>>, is_internal |-> internal]
    ELSE [messages |-> msgs, is_internal |-> internal]

\* fault variant: the exit marker is appended before the announcement
ExitMonologue_MarkerFirst(msgs, internal) ==
    IF internal
    THEN [messages |-> msgs \o <<ExitMarker, ExitAnnouncement>>, is_internal |-> FALSE]
    ELSE [messages |-> msgs, is_internal |-> internal]

\* fault variant: the flag is reset and the announcement made, the marker is left out
ExitMonologue_NoMarker(msgs, internal) ==
    IF internal
    THEN [messages |-> msgs \o <<ExitAnnouncement>>, is_internal |-> FALSE]
    ELSE [messages |-> msgs, is_internal |-> internal]

\* external_dialogue, lines 27-30: leave the monologue if the mode is internal
ExitMonologue(msgs, internal) ==
    IF internal
    THEN [messages |-> msgs \o <<ExitAnnouncement, ExitMarker>>, is_internal |-> FALSE]
    ELSE [messages |-> msgs, is_internal |-> internal]

\* fault variant: the mode is not tested, the entry messages are always appended
EnterMonologue_Unguarded(msgs, internal) ==
    [messages |-> msgs \o <<EnterMarker, EnterAnnouncement>>, is_internal |-> TRUE]

\* fault variant: the announcement is appended before the enter marker
EnterMonologue_AnnouncementFirst(msgs, internal) ==
    IF ~internal
    THEN [messages |-> msgs \o <<EnterAnnouncement, EnterMarker>>, is_internal |-> TRUE]
    ELSE [messages |-> msgs, is_internal |-> internal]

\* fault variant: the entry messages are inserted at the front of the transcript
EnterMonologue_Prepends(msgs, internal) ==
    IF ~internal
    THEN [messages |-> <<EnterMarker, EnterAnnouncement>> \o msgs, is_internal |-> TRUE]
    ELSE [messages |-> msgs, is_internal |-> internal]

\* internal_monologue, lines 36-39: enter the monologue if the mode is external
EnterMonologue(msgs, internal) ==
    IF ~internal
    THEN [messages |-> msgs \o <<EnterMarker, EnterAnnouncement>>, is_internal |-> TRUE]
    ELSE [messages |-> msgs, is_internal |-> internal]

\* fault variant: only a tag at the start of the text is removed
StripTag_LeadingOnly(text) == IF text # <<>> /\ Head(text) = TAG THEN Tail(text) ELSE text

\* response.replace('[Internal Monologue]: ', ''): every occurrence is removed
StripTag(text) == SelectSeq(text, LAMBDA t : t # TAG)

\* Reasoner.external_dialogue
external_dialogue(thought, reply) ==
    LET noted == Append(messages, Msg("assistant", <<TAG>> \o thought, NoName))
        left == ExitMonologue(noted, is_internal)
        request == Request(left.messages, <<>>, "", FALSE)
        base == [NoCall EXCEPT !.op = "external_dialogue", !.thought = thought,
                               !.was_internal = is_internal,
                               !.len_before = Len(messages), !.requests = <<request>>,
                               !.reply = reply]
    IN  /\ is_internal' = left.is_internal
        /\ IF reply.role = "error"
           THEN /\ messages' = left.messages
                /\ call' = [base EXCEPT !.outcome = "raised", !.error = "ProviderError"]
           ELSE /\ messages' = Append(left.messages, Msg("assistant", reply.content, NoName))
                /\ call' = [base EXCEPT !.outcome = "returned", !.text = reply.content]
        /\ calls' = calls + 1
        /\ UNCHANGED caller_markers

\* fault variant: a failed completion is requested a second time before giving up
internal_monologue_Retries(thought, reply) ==
    LET entered == EnterMonologue(messages, is_internal)
        asked == Append(entered.messages, Msg("assistant", <<TAG>> \o thought, NoName))
        request == Request(asked, <<>>, "", TRUE)
        response == StripTag(reply.content)
        base == [NoCall EXCEPT !.op = "internal_monologue", !.thought = thought,
                               !.was_internal = is_internal,
                               !.len_before = Len(messages), !.reply = reply]
    IN  /\ is_internal' = entered.is_internal
        /\ IF reply.role = "error"
           THEN /\ messages' = asked
                /\ call' = [base EXCEPT !.requests = <<request, request>>,
                                        !.outcome = "raised", !.error = "ProviderError"]
           ELSE /\ messages' = Append(asked, Msg("assistant", <<TAG>> \o response, NoName))
                /\ call' = [base EXCEPT !.requests = <<request>>,
                                        !.outcome = "returned", !.text = response]
        /\ calls' = calls + 1
        /\ UNCHANGED caller_markers

\* Reasoner.internal_monologue
internal_monologue(thought, reply) ==
    LET entered == EnterMonologue(messages, is_internal)
        asked == Append(entered.messages, Msg("assistant", <<TAG>> \o thought, NoName))
        request == Request(asked, <<>>, "", TRUE)
        response == StripTag(reply.content)
        base == [NoCall EXCEPT !.op = "internal_monologue", !.thought = thought,
                               !.was_internal = is_internal,
                               !.len_before = Len(messages), !.requests = <<request>>,
                               !.reply = reply]
    IN  /\ is_internal' = entered.is_internal
        /\ IF reply.role = "error"
           THEN /\ messages' = asked
                /\ call' = [base EXCEPT !.outcome = "raised", !.error = "ProviderError"]
           ELSE /\ messages' = Append(asked, Msg("assistant", <<TAG>> \o response, NoName))
                /\ call' = [base EXCEPT !.outcome = "returned", !.text = response]
        /\ calls' = calls + 1
        /\ UNCHANGED caller_markers

(* ---------------------------- values and types ------------------------ *)

\* Python values carried by function arguments
PyInt(i) == [kind |-> "int", val |-> i]
PyBool(b) == [kind |-> "bool", val |-> b]
PyStr(s) == [kind |-> "str", val |-> s]

\* an ordered mapping (dict) is a sequence of <<key, value>> pairs, keys distinct
Keys(mapping) == { mapping[i][1] : i \in 1..Len(mapping) }
Get(mapping, key) == LET i == CHOOSE j \in 1..Len(mapping) : mapping[j][1] = key IN mapping[i][2]

\* a plain type passed as output_type
IntType == [kind |-> "primitive", name |-> "int", fields |-> <<>>]
BoolType == [kind |-> "primitive", name |-> "bool", fields |-> <<>>]

\* the pydantic model of the docstring example (two of its fields):
\* class Person(BaseModel): name: str; is_based: bool = False
Person ==
    [kind |-> "record", name |-> "Person",
     fields |-> << [name |-> "name", required |-> TRUE, default |-> NoValue],
                   [name |-> "is_based", required |-> FALSE, default |-> PyBool(FALSE)] >>]

\* BaseModel.model_construct(_fields_set, **values): an unvalidated instance holding
\* the declared fields found in values, and the defaults of the optional ones
RECURSIVE FieldsValues(_, _)
FieldsValues(fields, values) ==
    IF fields = <<>> THEN <<>>
    ELSE LET f == Head(fields)
             rest == FieldsValues(Tail(fields), values)
         IN  IF f.name \in Keys(values) THEN << <<f.name, Get(values, f.name)>> >> \o rest
             ELSE IF ~f.required THEN << <<f.name, f.default>> >> \o rest
             ELSE rest

model_construct(output_type, fields_set, values) ==
    [kind |-> "record",
     val |-> [type |-> output_type.name,
              fields |-> FieldsValues(output_type.fields, values),
              fields_set |-> fields_set]]

\* repr() of a value, as text
RECURSIVE Repr(_)
RECURSIVE ReprArgs(_)
ReprArgs(pairs) ==
    IF pairs = <<>> THEN <<>>
    ELSE <<pairs[1][1], "=">> \o Repr(pairs[1][2])
         \o (IF Len(pairs) > 1 THEN <<", ">> ELSE <<>>) \o ReprArgs(Tail(pairs))
Repr(v) ==
    CASE v.kind = "int" -> <<ToString(v.val)>>
      [] v.kind = "bool" -> <<IF v.val THEN "True" ELSE "False">>
      [] v.kind = "str" -> <<"'", v.val, "'">>
      [] v.kind = "record" -> <<v.val.type, "(">> \o ReprArgs(v.val.fields) \o <<")">>

\* str() of a value: format() of a replacement field without format spec
Str(v) == IF v.kind = "str" THEN <<v.val>> ELSE Repr(v)

(* ---------------------------- format templates ------------------------ *)

\* a format string is a sequence of literal pieces and replacement fields '{name}'
Lit(text) == [kind |-> "lit", text |-> text]
Field(name) == [kind |-> "field", text |-> name]

\* the format string as written: literal text, and '{name}' for a field
Source(format_string) ==
    [i \in 1..Len(format_string) |->
        IF format_string[i].kind = "lit" THEN format_string[i].text
        ELSE "{" \o format_string[i].text \o "}"]

\* field_name of a parse tuple that holds only literal text
None == "<None>"

\* string.Formatter.parse: one tuple per replacement field, with the literal text
\* in front of it, and one for the literal text after the last field
RECURSIVE parse(_, _)
parse(format_string, literal) ==
    IF format_string = <<>>
    THEN IF literal = <<>> THEN <<>>
         ELSE << [literal_text |-> literal, field_name |-> None] >>
    ELSE LET tok == Head(format_string)
         IN  IF tok.kind = "lit"
             THEN parse(Tail(format_string), Append(literal, tok.text))
             ELSE << [literal_text |-> literal, field_name |-> tok.text] >>
                  \o parse(Tail(format_string), <<>>)

\* extract_info, line 95: the parse tuples that hold a replacement field
Parsed(info_format) == SelectSeq(parse(info_format, <<>>), LAMBDA x : x.field_name # None)

\* field names str.format takes from the positional arguments: '{}' and '{0}'
PositionalNames == {"", "0"}

\* str.format(**kwargs): the first field that cannot be resolved raises
RECURSIVE format(_, _)
format(format_string, kwargs) ==
    IF format_string = <<>> THEN [error |-> "", text |-> <<>>]
    ELSE LET tok == Head(format_string)
             rest == format(Tail(format_string), kwargs)
         IN  IF tok.kind = "lit"
             THEN [rest EXCEPT !.text = <<tok.text>> \o rest.text]
             ELSE IF tok.text \in PositionalNames THEN [error |-> "IndexError", text |-> <<>>]
             ELSE IF tok.text \notin Keys(kwargs) THEN [error |-> "KeyError", text |-> <<>>]
             ELSE [rest EXCEPT !.text = Str(Get(kwargs, tok.text)) \o rest.text]

(* ---------------------------- StructuredReasoner ---------------------- *)

\* fault variant: no fallback, a missing key raises
DecodeField_NoFallback(args, field_name) ==
    IF field_name \in Keys(args) THEN [error |-> "", value |-> Get(args, field_name)]
    ELSE [error |-> "KeyError", value |-> NoValue]

\* extract_info, lines 122-126: the value under field_name, else the last item
DecodeField(args, field_name) ==
    IF field_name \in Keys(args) THEN [error |-> "", value |-> Get(args, field_name)]
    ELSE IF args = <<>> THEN [error |-> "KeyError", value |-> NoValue]
    ELSE [error |-> "", value |-> args[Len(args)][2]]

\* extract_info, lines 118-126.  model_construct(value) passes the argument mapping
\* as the positional parameter _fields_set and no keyword values
Decode(output_type, args, field_name) ==
    IF output_type.kind = "record"
    THEN [error |-> "", value |-> model_construct(output_type, Keys(args), <<>>)]
    ELSE DecodeField(args, field_name)

\* extract_info, lines 100-112: the one function offered to the provider
JsonSchema(info_format, output_type, field_name) ==
    [name |-> "remember_" \o field_name,
     description |-> <<"This function stores a piece of information in the format: '">>
                     \o Source(info_format) \o <<"'.">>,
     parameters |-> IF output_type.kind = "record"
                    THEN [i \in 1..Len(output_type.fields) |-> output_type.fields[i].name]
                    ELSE <<field_name>>]

\* fault variant: the rendered template is stored without the quoting frame
StoredInformation_Bare(info) == info

\* extract_info, line 129: the content of the message recording the stored value
StoredInformation(info) == <<"Stored information: \"">> \o info \o <<"\"">>

\* fault variant: the exception does not carry the reply's content
UnexpectedResponse_NoContent(response) == <<"Expected a function call, but got: ">>

\* extract_info, line 116: the message of the exception raised on a text reply
UnexpectedResponse(response) == <<"Expected a function call, but got: ">> \o response.content

\* fault variant: the reply is recorded in the transcript before its role is tested
extract_info_StoresFirst(info_format, output_type, reply) ==
    LET parsed == Parsed(info_format)
        field_name == parsed[1].field_name
        json_schema == JsonSchema(info_format, output_type, field_name)
        request == Request(messages, <<json_schema>>, json_schema.name, TRUE)
        decoded == Decode(output_type, reply.args, field_name)
        info == format(info_format, << <<field_name, decoded.value>> >>)
        base == [NoCall EXCEPT !.op = "extract_info", !.was_internal = is_internal,
                               !.len_before = Len(messages), !.info_format = info_format,
                               !.output_type = output_type]
        asked == [base EXCEPT !.requests = <<request>>, !.reply = reply]
        stored(text) == messages' = Append(messages,
                                           Msg("function", StoredInformation(text), reply.name))
    IN  /\ calls' = calls + 1
        /\ UNCHANGED <<is_internal, caller_markers>>
        /\ IF Len(parsed) # 1
           THEN /\ call' = [base EXCEPT !.outcome = "raised", !.error = "AssertionError"]
                /\ UNCHANGED messages
           ELSE IF reply.role = "error"
           THEN /\ call' = [asked EXCEPT !.outcome = "raised", !.error = "ProviderError"]
                /\ UNCHANGED messages
           ELSE IF reply.role # "function"
           THEN /\ call' = [asked EXCEPT !.outcome = "raised", !.error = "Exception",
                                         !.error_content = UnexpectedResponse(reply)]
                /\ stored(reply.content)
           ELSE IF decoded.error # ""
           THEN /\ call' = [asked EXCEPT !.outcome = "raised", !.error = decoded.error]
                /\ stored(<<>>)
           ELSE IF info.error # ""
           THEN /\ call' = [asked EXCEPT !.outcome = "raised", !.error = info.error]
                /\ stored(<<>>)
           ELSE /\ call' = [asked EXCEPT !.outcome = "returned", !.value = decoded.value]
                /\ stored(info.text)

\* StructuredReasoner.extract_info.  create_model takes any string as a field
\* name, '' included, so the schema is built for every template that is let through
extract_info(info_format, output_type, reply) ==
    LET parsed == Parsed(info_format)
        field_name == parsed[1].field_name
        use_pydantic == output_type.kind = "record"
        json_schema == JsonSchema(info_format, output_type, field_name)
        request == Request(messages, <<json_schema>>, json_schema.name, TRUE)
        decoded == Decode(output_type, reply.args, field_name)
        info == format(info_format, << <<field_name, decoded.value>> >>)
        base == [NoCall EXCEPT !.op = "extract_info", !.was_internal = is_internal,
                               !.len_before = Len(messages), !.info_format = info_format,
                               !.output_type = output_type]
        asked == [base EXCEPT !.requests = <<request>>, !.reply = reply]
        raised(c, error) == /\ call' = [c EXCEPT !.outcome = "raised", !.error = error]
                            /\ UNCHANGED messages
    IN  /\ calls' = calls + 1
        /\ UNCHANGED <<is_internal, caller_markers>>
        /\ IF Len(parsed) # 1 THEN raised(base, "AssertionError")
           ELSE IF reply.role = "error" THEN raised(asked, "ProviderError")
           ELSE IF reply.role # "function"
                THEN raised([asked EXCEPT !.error_content = UnexpectedResponse(reply)],
                            "Exception")
           ELSE IF decoded.error # "" THEN raised(asked, decoded.error)
           ELSE IF info.error # "" THEN raised(asked, info.error)
           ELSE /\ messages' = Append(messages,
                                      Msg("function", StoredInformation(info.text), reply.name))
                /\ call' = [asked EXCEPT !.outcome = "returned", !.value = decoded.value]

(* ---------------------------- inputs ---------------------------------- *)

Thoughts == { <<"plan X">> }

\* what callers append themselves: a user turn, or a message that looks like a marker
CallerMessages ==
    { Msg("user", <<"My name's Bill, I'm a 42 y.o. male from New York.">>, NoName),
      EnterMarker, ExitMarker }

AgeTemplate == <<Lit("The user is "), Field("age"), Lit(" years old.")>>
PersonTemplate == <<Lit("Added "), Field("person"), Lit(" to the database.")>>

Templates ==
    { AgeTemplate,
      PersonTemplate,
      <<Lit("Nothing to fill in.")>>,
      <<Lit("Value: "), Field("")>>,
      <<Field("age"), Lit(" or "), Field("age")>>,
      <<Field("age"), Lit(" and "), Field("years")>> }

OutputTypes == { IntType, Person }

ArgumentMappings ==
    { <<>>,
      << <<"age", PyInt(25)>> >>,
      << <<"years", PyInt(30)>> >>,
      << <<"age", PyInt(25)>>, <<"years", PyInt(30)>> >>,
      << <<"name", PyStr("Ivan Yevenko")>>, <<"is_based", PyBool(TRUE)>> >> }

\* replies to a forced function request: the forced function's name comes back,
\* or another name the provider made up; a text reply; or a failure
ExtractReplies ==
    { ProviderFailure, TextReply(<<"I cannot tell.">>),
      FunctionReply("store_information", << <<"age", PyInt(25)>> >>) }
    \cup { FunctionReply("remember_age", a) : a \in ArgumentMappings }

(* ---------------------------- specifications -------------------------- *)

AddMessage ==
    /\ calls < MaxCalls
    /\ \E m \in CallerMessages : add_message(m.role, m.content, m.name)
    /\ UNCHANGED driver

ThinkInternal ==
    /\ calls < MaxCalls
    /\ \E thought \in Thoughts, reply \in Completions \cup {ProviderFailure} :
          internal_monologue(thought, reply)
    /\ UNCHANGED driver

SpeakExternal ==
    /\ calls < MaxCalls
    /\ \E thought \in Thoughts, reply \in {TextReply(<<"Sure.">>), ProviderFailure} :
          external_dialogue(thought, reply)
    /\ UNCHANGED driver

Extract ==
    /\ calls < MaxCalls
    /\ \E info_format \in {AgeTemplate, <<Lit("Nothing to fill in.")>>},
          reply \in {ProviderFailure, TextReply(<<"I cannot tell.">>),
                     FunctionReply("remember_age", << <<"age", PyInt(25)>> >>)} :
          extract_info(info_format, IntType, reply)
    /\ UNCHANGED driver

Next == AddMessage \/ ThinkInternal \/ SpeakExternal \/ Extract

Spec == Init /\ [][Next]_vars

\* extract_info on every template, target type and reply, between other calls
ExtractAny ==
    /\ calls < MaxExtractCalls
    /\ \E info_format \in Templates, output_type \in OutputTypes, reply \in ExtractReplies :
          extract_info(info_format, output_type, reply)
    /\ UNCHANGED driver

Think ==
    /\ calls < MaxExtractCalls
    /\ \E reply \in {TextReply(<<"Sure.">>), ProviderFailure} :
          internal_monologue(<<"plan X">>, reply)
    /\ UNCHANGED driver

Speak ==
    /\ calls < MaxExtractCalls
    /\ \E reply \in {TextReply(<<"Sure.">>), ProviderFailure} :
          external_dialogue(<<"respond">>, reply)
    /\ UNCHANGED driver

AddUserMessage ==
    /\ calls < MaxExtractCalls
    /\ add_message("user", <<"I am 25.">>, NoName)
    /\ UNCHANGED driver

NextExtract == ExtractAny \/ Think \/ Speak \/ AddUserMessage

SpecExtract == Init /\ [][NextExtract]_vars

(* ---------------------------- __main__ driver loop -------------------- *)

procedure == "gel electrophoresis"

\* line 182: the question about a step.  The outer format() fills in the step and
\* the procedure and leaves '{answer}' as the one replacement field
Question(s) ==
    << Lit("Has the user completed the step "), Lit(s), Lit(" in the procedure of "),
       Lit(procedure), Lit("? "), Field("answer") >>

\* lines 190 and 196: the thought of the exit branch, and the thought about a step
DriverThought(s) ==
    IF s = "exit"
    THEN <<"I need to exit the conversation because we've finished all the steps in the procedure.">>
    ELSE <<"I need to guide the user to finish the step (", s, ") to get to the next step in the procedure.">>

\* the provider's answers to the question, and its failure
AnswerReplies ==
    { FunctionReply("remember_answer", << <<"answer", PyBool(b)>> >>) : b \in BOOLEAN }
    \cup {ProviderFailure}

\* line 171, `while steps:` with an empty list: the loop is over
LoopEnds ==
    /\ pc = "top" /\ steps = <<>>
    /\ pc' = "done"
    /\ UNCHANGED <<messages, is_internal, call, caller_markers, calls, step, steps, questioned>>

\* lines 172-174 and 180: the first turn takes the first step and greets
Greeting ==
    /\ pc = "top" /\ steps # <<>> /\ step = ""
    /\ calls < MaxDriverCalls
    /\ step' = Head(steps) /\ steps' = Tail(steps)
    /\ add_message("user",
                   <<"Hi! I'm trying to do the ", procedure,
                     " procedure. I haven't started anything yet though.">>,
                   NoName)
    /\ pc' = "extract"
    /\ UNCHANGED questioned

\* lines 175-180: a later turn reads the user's message; 'quit' leaves the loop
UserTurn ==
    /\ pc = "top" /\ steps # <<>> /\ step # ""
    /\ calls < MaxDriverCalls
    /\ \E message \in { <<"quit">>, <<"Done, what now?">> } :
          IF message = <<"quit">>
          THEN /\ pc' = "quit"
               /\ UNCHANGED <<messages, is_internal, call, caller_markers, calls>>
          ELSE /\ add_message("user", message, NoName)
               /\ pc' = "extract"
    /\ UNCHANGED <<step, steps, questioned>>

\* lines 182-187: the question is put to extract_info; on True the next step is taken
CheckStep ==
    /\ pc = "extract"
    /\ \E reply \in AnswerReplies : extract_info(Question(step), BoolType, reply)
    /\ questioned' = Append(questioned, [step |-> step, answer |-> call'.value])
    /\ IF call'.outcome = "raised"
       THEN pc' = "crashed" /\ UNCHANGED <<step, steps>>
       ELSE IF call'.value = PyBool(TRUE)
       THEN IF steps = <<>>
            THEN pc' = "crashed" /\ UNCHANGED <<step, steps>>
            ELSE step' = Head(steps) /\ steps' = Tail(steps) /\ pc' = "think"
       ELSE pc' = "think" /\ UNCHANGED <<step, steps>>

\* lines 190 and 196: the internal monologue of either branch
DriverThink ==
    /\ pc = "think"
    /\ \E reply \in {TextReply(<<"Sure.">>), ProviderFailure} :
          internal_monologue(DriverThought(step), reply)
    /\ pc' = IF call'.outcome = "raised" THEN "crashed" ELSE "speak"
    /\ UNCHANGED <<step, steps, questioned>>

\* lines 192-194 and 198: the reply of either branch; the exit branch then breaks
DriverSpeak ==
    /\ pc = "speak"
    /\ \E reply \in {TextReply(<<"Sure.">>), ProviderFailure} :
          external_dialogue(<<"I'll respond to the user using the response I chose.">>, reply)
    /\ pc' = IF call'.outcome = "raised" THEN "crashed"
             ELSE IF step = "exit" THEN "exited" ELSE "top"
    /\ UNCHANGED <<step, steps, questioned>>

NextDriver == LoopEnds \/ Greeting \/ UserTurn \/ CheckStep \/ DriverThink \/ DriverSpeak

\* line 151: the driver builds its reasoner with a system prompt
InitDriver == Init /\ messages # <<>>

SpecDriver == InitDriver /\ [][NextDriver]_vars

(* ---------------------------- properties ------------------------------ *)

\* the messages the most recent call appended
Appended == SubSeq(messages, call.len_before + 1, Len(messages))

\* the transcript as it was when the most recent call began
Before == SubSeq(messages, 1, call.len_before)

Markers(msgs) == SelectSeq(msgs, IsMarker)

IsPrefix(s, t) == Len(s) <= Len(t) /\ SubSeq(t, 1, Len(s)) = s

ThoughtMessage == Msg("assistant", <<TAG>> \o call.thought, NoName)

\* C1: as long as the caller has appended no marker message itself, the mode is
\* internal exactly when the transcript holds a marker and the last one is
\* enter_monologue; whatever calls were made and whether or not the provider failed.
C1_ModeMatchesLastMarker ==
    ~caller_markers =>
        LET marks == Markers(messages)
        IN  is_internal <=> (marks # <<>> /\ marks[Len(marks)].name = "enter_monologue")

\* the provider failed in external_dialogue called in internal mode, after markers
C1_Witness ==
    /\ ~caller_markers
    /\ call.op = "external_dialogue" /\ call.outcome = "raised" /\ call.was_internal
    /\ Len(Markers(messages)) = 2
    /\ ~is_internal

\* C2: internal_monologue in internal mode appends no enter marker and no entry
\* announcement; external_dialogue in external mode appends no exit marker and no
\* exit announcement; each dialogue call appends one marker if it changed the mode
\* and none otherwise; and the markers of the transcript alternate enter, exit,
\* enter, ... (the caller appending no marker itself).
C2_MarkersOncePerTransition ==
    /\ (call.op = "internal_monologue" /\ call.was_internal) =>
           \A i \in 1..Len(Appended) : Appended[i] \notin {EnterMarker, EnterAnnouncement}
    /\ (call.op = "external_dialogue" /\ ~call.was_internal) =>
           \A i \in 1..Len(Appended) : Appended[i] \notin {ExitMarker, ExitAnnouncement}
    /\ call.op \in {"internal_monologue", "external_dialogue"} =>
           Len(Markers(Appended)) = IF call.was_internal # is_internal THEN 1 ELSE 0
    /\ ~caller_markers =>
           \A i \in 1..Len(Markers(messages)) :
               Markers(messages)[i] = IF i % 2 = 1 THEN EnterMarker ELSE ExitMarker

\* enter, exit, enter, then a second internal_monologue in internal mode
C2_Witness ==
    /\ ~caller_markers
    /\ Len(Markers(messages)) = 3
    /\ call.op = "internal_monologue" /\ call.was_internal

\* internal_monologue called in external mode, the provider answering
ThoughtFromExternal ==
    call.op = "internal_monologue" /\ ~call.was_internal /\ call.outcome = "returned"

\* C8 as stated: the 4 messages are announcement, marker, thought, reply, and the
\* provider request sees the first 3.
C8_AnnouncementThenMarker ==
    ThoughtFromExternal =>
        /\ Appended = <<EnterAnnouncement, EnterMarker, ThoughtMessage,
                        Msg("assistant", <<TAG>> \o call.text, NoName)>>
        /\ Len(call.requests) = 1
        /\ call.requests[1].messages = SubSeq(messages, 1, call.len_before + 3)

\* C8, amended: internal_monologue in external mode with a provider that answers
\* appends exactly 4 messages: the enter_monologue marker, the entry announcement,
\* the tagged thought, the tagged reply; the provider request sees the first 3.
C8_MarkerThenAnnouncement ==
    ThoughtFromExternal =>
        /\ Appended = <<EnterMarker, EnterAnnouncement, ThoughtMessage,
                        Msg("assistant", <<TAG>> \o call.text, NoName)>>
        /\ Len(call.requests) = 1
        /\ call.requests[1].messages = SubSeq(messages, 1, call.len_before + 3)

\* the first call on a new reasoner is such an internal_monologue
C8_Witness == ThoughtFromExternal /\ calls = 1 /\ Len(Appended) = 4

\* C9: external_dialogue with a provider that answers appends the note, then the
\* exit announcement and exit marker if the mode was internal, then the reply; it
\* returns the reply, leaves the mode external, and the provider request sees all
\* but the reply: 4 messages from internal mode, 2 from external mode.
C9_ExternalDialogueOrder ==
    (call.op = "external_dialogue" /\ call.outcome = "returned") =>
        /\ Appended = <<ThoughtMessage>>
                      \o (IF call.was_internal THEN <<ExitAnnouncement, ExitMarker>> ELSE <<>>)
                      \o <<Msg("assistant", call.reply.content, NoName)>>
        /\ call.text = call.reply.content
        /\ ~is_internal
        /\ Len(call.requests) = 1
        /\ call.requests[1].messages = SubSeq(messages, 1, Len(messages) - 1)
        /\ Len(Appended) = IF call.was_internal THEN 4 ELSE 2

\* external_dialogue answered in internal mode
C9_Witness ==
    /\ call.op = "external_dialogue" /\ call.outcome = "returned" /\ call.was_internal
    /\ Len(Appended) = 4

\* C10: every step leaves the old transcript as a prefix of the new one.
C10_AppendOnly == [][IsPrefix(messages, messages')]_vars

\* a failed extract_info on a transcript that earlier calls have filled
C10_Witness ==
    /\ call.op = "extract_info" /\ call.outcome = "raised"
    /\ Len(messages) >= 4 /\ calls >= 2

(* ---------------------------- properties of extract_info -------------- *)

ExtractCall == call.op = "extract_info"

\* the replacement fields of a template, and those that carry a name
Placeholders(template) == SelectSeq(template, LAMBDA tok : tok.kind = "field")
NamedFields(template) ==
    SelectSeq(template, LAMBDA tok : tok.kind = "field" /\ tok.text \notin PositionalNames)

\* exactly one placeholder, and it is a named one
OnePlaceholder(template) == Len(Placeholders(template)) = 1 /\ Len(NamedFields(template)) = 1

TheField == NamedFields(call.info_format)[1].text

\* the template with text put in the place of every placeholder
RECURSIVE Substituted(_, _)
Substituted(template, text) ==
    IF template = <<>> THEN <<>>
    ELSE (IF Head(template).kind = "lit" THEN <<Head(template).text>> ELSE text)
         \o Substituted(Tail(template), text)

StoredMessage(value, name) ==
    Msg("function",
        <<"Stored information: \"">> \o Substituted(call.info_format, Str(value)) \o <<"\"">>,
        name)

\* a function-style reply came back for a template with exactly one placeholder
FunctionReplied ==
    /\ ExtractCall /\ OnePlaceholder(call.info_format)
    /\ Len(call.requests) = 1 /\ call.reply.role = "function"

\* one forced request on the transcript, one stored message, the decoded value back
ExtractStored ==
    /\ call.outcome = "returned"
    /\ Len(call.requests) = 1
    /\ call.requests[1].messages = Before
    /\ Len(call.requests[1].functions) = 1
    /\ call.requests[1].functions[1].name = "remember_" \o TheField
    /\ call.requests[1].function_call = "remember_" \o TheField
    /\ Appended = <<StoredMessage(call.value, call.reply.name)>>
    /\ IF call.output_type.kind = "record"
       THEN call.value.kind = "record" /\ call.value.val.type = call.output_type.name
       ELSE call.value = IF TheField \in Keys(call.reply.args)
                         THEN Get(call.reply.args, TheField)
                         ELSE call.reply.args[Len(call.reply.args)][2]
    /\ (/\ call.info_format = AgeTemplate /\ call.output_type = IntType
        /\ call.reply.args = << <<"age", PyInt(25)>> >>) =>
           /\ call.value = PyInt(25)
           /\ Appended[1].content =
                  <<"Stored information: \"", "The user is ", "25", " years old.", "\"">>

\* C3 as stated: every function-style reply to a one-placeholder template is stored
\* and its value returned.
C3_EveryFunctionReplyStored == FunctionReplied => ExtractStored

\* C3, amended: for every template with exactly one named placeholder and every
\* function-style reply whose arguments are not empty when the target is a plain
\* type, extract_info makes one request on the transcript, offering and forcing
\* remember_<field_name>, appends one function message 'Stored information:
\* "<rendered template>"' under the returned function name, and returns the value.
C3_FunctionReplyStored ==
    (FunctionReplied /\ (call.output_type.kind = "record" \/ call.reply.args # <<>>))
        => ExtractStored

\* the docstring example: {age: 25} into "The user is {age} years old."
C3_Witness ==
    /\ FunctionReplied /\ call.outcome = "returned"
    /\ call.info_format = AgeTemplate /\ call.value = PyInt(25)
    /\ call.reply.name = "store_information"

\* C4 as stated: a template whose count of named fields is not one (no field, only
\* '{}', two fields, one name twice) fails with the usage error before any request.
C4_NotOneNamedFieldIsUsageError ==
    (ExtractCall /\ Len(NamedFields(call.info_format)) # 1) =>
        /\ call.outcome = "raised" /\ call.error = "AssertionError"
        /\ call.requests = <<>>

\* C5: a reply to the forced request that is not function-style makes extract_info
\* raise an error carrying the reply's content; nothing is returned.
C5_TextReplyRaises ==
    (ExtractCall /\ Len(call.requests) = 1 /\ call.reply.role \notin {"function", "error"}) =>
        /\ call.outcome = "raised" /\ call.error = "Exception"
        /\ call.error_content = <<"Expected a function call, but got: ">> \o call.reply.content
        /\ call.value = NoValue

C5_Witness ==
    /\ ExtractCall /\ Len(call.requests) = 1
    /\ call.reply = TextReply(<<"I cannot tell.">>)
    /\ call.outcome = "raised"

\* C6 as stated: with a record target and arguments that match the declared fields
\* exactly, every declared field of the returned record equals its argument.
C6_RecordFieldsEqualArguments ==
    (/\ FunctionReplied /\ call.output_type.kind = "record"
     /\ Keys(call.reply.args) =
            { call.output_type.fields[i].name : i \in 1..Len(call.output_type.fields) }) =>
        /\ call.outcome = "returned"
        /\ \A k \in Keys(call.reply.args) :
               /\ k \in Keys(call.value.val.fields)
               /\ Get(call.value.val.fields, k) = Get(call.reply.args, k)

\* C7: with a plain target type, a single argument under another key is returned
\* and stored; an argument under the expected key is returned whatever else is there.
C7_FallbackToLoneArgument ==
    (FunctionReplied /\ call.output_type.kind = "primitive") =>
        /\ (Len(call.reply.args) = 1 /\ call.reply.args[1][1] # TheField) =>
               /\ call.outcome = "returned"
               /\ call.value = call.reply.args[1][2]
               /\ Appended = <<StoredMessage(call.reply.args[1][2], call.reply.name)>>
        /\ TheField \in Keys(call.reply.args) =>
               /\ call.outcome = "returned"
               /\ call.value = Get(call.reply.args, TheField)

\* {years: 30} answered for the field age
C7_Witness ==
    /\ FunctionReplied /\ call.output_type = IntType
    /\ call.info_format = AgeTemplate
    /\ call.reply.args = << <<"years", PyInt(30)>> >>
    /\ call.value = PyInt(30)

(* ---------------------------- further properties ---------------------- *)

\* C11: a dialogue or extract call makes at most one provider request, and none
\* only when extract_info's template check fails; a failed request ends the call
\* with the provider's failure, with no second request and nothing appended after it.
C11_OneRequestNoRetry ==
    call.op \in {"internal_monologue", "external_dialogue", "extract_info"} =>
        /\ Len(call.requests) <= 1
        /\ Len(call.requests) = 0 <=>
               (ExtractCall /\ Len(Placeholders(call.info_format)) # 1)
        /\ (Len(call.requests) >= 1 /\ call.reply = ProviderFailure) =>
               /\ call.outcome = "raised" /\ call.error = "ProviderError"
               /\ messages = call.requests[1].messages

\* the provider failed in internal_monologue
C11_Witness ==
    /\ call.op = "internal_monologue" /\ call.reply = ProviderFailure
    /\ call.outcome = "raised" /\ Len(Appended) = 3

\* C12: a new reasoner is in external mode; its transcript is empty when the
\* prompt is falsy, and otherwise the one system message holding the prompt.
C12_NewReasoner ==
    call.op = "__init__" =>
        /\ ~is_internal
        /\ IF call.system_prompt = <<>>
           THEN messages = <<>>
           ELSE messages = <<[role |-> "system", content |-> call.system_prompt,
                              name |-> NoName]>>

\* a reasoner built with a system prompt
C12_Witness == call.op = "__init__" /\ call.system_prompt # <<>> /\ Len(messages) = 1

\* the text without any occurrence of the tag
RECURSIVE WithoutTag(_)
WithoutTag(text) ==
    IF text = <<>> THEN <<>>
    ELSE (IF Head(text) = TAG THEN <<>> ELSE <<Head(text)>>) \o WithoutTag(Tail(text))

Thought == call.op = "internal_monologue" /\ call.outcome = "returned"

\* C13 as stated: only a leading tag is removed from the reply.
C13_LeadingTagRemoved ==
    Thought =>
        /\ call.text = IF call.reply.content # <<>> /\ Head(call.reply.content) = TAG
                       THEN Tail(call.reply.content)
                       ELSE call.reply.content
        /\ messages[Len(messages)] = Msg("assistant", <<TAG>> \o call.text, NoName)

\* C13, amended: internal_monologue returns the reply with every occurrence of the
\* tag removed, and the last message it appends is the tag followed by that text.
C13_EveryTagRemoved ==
    Thought =>
        /\ call.text = WithoutTag(call.reply.content)
        /\ messages[Len(messages)] = Msg("assistant", <<TAG>> \o call.text, NoName)

\* a reply with the tag in its middle
C13_Witness ==
    /\ Thought
    /\ call.reply.content = <<"First, ", TAG, "then.">>
    /\ call.text = <<"First, ", "then.">>

\* message i of the transcript follows an enter marker that no exit marker closed
InsideMonologue(i) ==
    LET marks == Markers(SubSeq(messages, 1, i - 1))
    IN  marks # <<>> /\ marks[Len(marks)].name = "enter_monologue"

\* C16: external_dialogue appends the provider's reply in external mode, outside any
\* monologue and right after the exit marker when it left one; and every assistant
\* message a dialogue call appends inside a monologue carries the tag (the caller
\* appending no marker itself).
C16_RepliesOutsideMonologue ==
    ~caller_markers =>
        /\ (call.op = "external_dialogue" /\ call.outcome = "returned") =>
               /\ ~is_internal
               /\ messages[Len(messages)] = Msg("assistant", call.reply.content, NoName)
               /\ ~InsideMonologue(Len(messages))
               /\ call.was_internal => messages[Len(messages) - 1] = ExitMarker
        /\ call.op \in {"internal_monologue", "external_dialogue"} =>
               \A i \in (call.len_before + 1)..Len(messages) :
                   (messages[i].role = "assistant" /\ InsideMonologue(i)) =>
                       Head(messages[i].content) = TAG

\* a reply given right after leaving a monologue
C16_Witness ==
    /\ ~caller_markers
    /\ call.op = "external_dialogue" /\ call.outcome = "returned" /\ call.was_internal
    /\ messages[Len(messages) - 1] = ExitMarker

\* C17: extract_info leaves the mode as it was; it leaves the transcript as it was
\* whenever it raises; when it returns it has appended one message, and the
\* provider request was made on the transcript without it.
C17_ExtractFrame ==
    ExtractCall =>
        /\ is_internal = call.was_internal
        /\ call.outcome = "raised" => (Appended = <<>> /\ call.value = NoValue)
        /\ call.outcome = "returned" =>
               /\ Len(Appended) = 1
               /\ Len(call.requests) = 1
               /\ call.requests[1].messages = Before

\* a text reply in internal mode: raised after the request, nothing appended
C17_Witness ==
    /\ ExtractCall /\ call.was_internal
    /\ call.outcome = "raised" /\ call.error = "Exception"
    /\ Len(call.requests) = 1

(* ---------------------------- properties of the driver ---------------- *)

\* the loop is over and neither 'quit' nor an exception ended it
RunOver == pc \in {"done", "exited"}

QuestionedSteps == { questioned[j].step : j \in 1..Len(questioned) }
ConfirmedSteps ==
    { questioned[j].step : j \in { k \in 1..Len(questioned) : questioned[k].answer = PyBool(TRUE) } }

\* C14 as stated: in a run that ends without 'quit' and without a failure, the
\* completion of every step of the list was put to extract_info; and the step in
\* hand is left only after extract_info returned True for it.
C14_EveryStepQuestioned ==
    /\ RunOver => \A i \in 1..Len(StepList) : StepList[i] \in QuestionedSteps
    /\ \A i \in 1..Len(StepList) :
           (step = StepList[i]) => \A k \in 1..(i - 1) : StepList[k] \in ConfirmedSteps

\* C15 as stated: a run in which every step is confirmed ends in the exit branch
\* (step == 'exit'): one recap monologue, one reply, then the loop stops.
C15_RunEndsInExitBranch ==
    RunOver =>
        /\ pc = "exited" /\ step = "exit"
        /\ call.op = "external_dialogue"

====
